---------------------------- MODULE Spec2Model ----------------------------
(***************************************************************************)
(* Model of the castle transcription example: the room agent               *)
(* (example_castle/room_stream.py, class RoomTranscriptionServer) and the  *)
(* central hub (example_castle/central_hub.py: connection_handler,         *)
(* CentralHub.process_room_message, handle_room_status_request).           *)
(*                                                                         *)
(* The agent's asyncio main task is a stack of frames, one per coroutine   *)
(* call (start_transcription, connect_to_hub, send_to_hub); every action   *)
(* is the code between two awaits.  The speech worker is a thread of its   *)
(* own.  The hub's websocket server is one asyncio thread ("ws"); every    *)
(* get_room_status request is handled on a thread of the viewer's own.     *)
(***************************************************************************)
EXTENDS Integers, Sequences, FiniteSets, TLC

\* --------------------------------------------------------------- bounds
MaxConns == 2
MaxFinals == 2
MaxMsgs == 2
MaxStalled == 1
MaxWire == 1
MaxRequests == 1
MaxPartials == 1
MaxShutdowns == 2

\* ---------------------------------------------------- program constants
max_retries == 5
retry_delay == 2

\* ------------------------------------------------------------- universe
Conns == 1..MaxConns
None == 0
Rooms == {"Hall A", "Hall B"}
NoRoom == ""
AgentRoom == "Hall A"
Viewers == {"v1", "v2"}
Space == " "
Texts == {<<>>, <<Space>>, <<"a">>, <<Space, "a", Space>>}
NoText == <<"<none>">>
NoId == -1
NoTime == -1

VARIABLES
    is_connected,            \* self.is_connected
    websocket,               \* self.websocket: a connection, or None
    transcription_counter,   \* self.transcription_counter
    transcription_queue,     \* self.transcription_queue
    local_backup,            \* the lines store_locally has appended, in order
    stack,                   \* the frames of the agent's main task
    worker_started,          \* the transcription_worker thread runs
    clock,                   \* time.time() of the agent
    sent,                    \* the events websocket.send has written
    suspended,               \* the frames of the loop's other tasks, one stack each
    recorder_stopped,        \* self.recorder.shutdown() was called
    partials,                \* calls of on_partial_transcription so far
    shutdowns,               \* calls of shutdown() so far
    conn,                    \* each connection: "unused", "open", "closed", "done"
    wire,                    \* each connection: payloads written, not yet read by the hub
    room_name,               \* connection_handler's local room_name
    connected_rooms,         \* the dict, as its items in insertion order
    transcription_history,   \* the defaultdict(list)
    room_stats,              \* the defaultdict: total_transcriptions
    lock,                    \* _lock: "free" or the thread holding it
    ws,                      \* the hub's websocket thread
    viewer,                  \* each viewer's get_room_status handler thread
    stalled,                 \* the viewers whose socket accepts no more writes
    msgs,                    \* payloads sent so far by clients other than the agent
    requests,                \* get_room_status requests sent so far
    last_status              \* each viewer, each room: the last status message written

taskVars == <<suspended, recorder_stopped, partials, shutdowns>>
agentVars == <<is_connected, websocket, transcription_counter, transcription_queue,
               local_backup, stack, worker_started, clock, sent, taskVars>>
netVars == <<conn, wire>>
registryVars == <<connected_rooms, transcription_history, room_stats>>
hubVars == <<room_name, connected_rooms, transcription_history, room_stats, lock, ws>>
viewerVars == <<viewer, stalled, requests, last_status>>
vars == <<is_connected, websocket, transcription_counter, transcription_queue,
          local_backup, stack, worker_started, clock, sent, conn, wire,
          room_name, connected_rooms, transcription_history, room_stats, lock,
          ws, viewer, stalled, msgs, requests, suspended, recorder_stopped,
          partials, shutdowns, last_status>>

\* ---------------------------------------------------------------- events
\* A wire message: the dict the agent builds.  A key the dict does not hold is
\* NoText, NoId, NoTime or "".
Event(type, room, text, ts, id, confidence, status) ==
    [type |-> type, room |-> room, text |-> text, timestamp |-> ts, id |-> id,
     confidence |-> confidence, status |-> status]

NoEvent == Event("none", NoRoom, NoText, NoTime, NoId, "", "")

ConnectionMsg(room, ts) ==
    Event("connection", room, NoText, ts, NoId, "", "connected")

DisconnectionMsg(room, ts) ==
    Event("disconnection", room, NoText, ts, NoId, "", "disconnected")

PartialMsg(room, text, ts, counter) ==
    Event("partial", room, text, ts, counter, "", "")

FinalMsg(room, text, ts, counter) ==
    Event("final", room, text, ts, counter, "0.9", "")

\* The dict connection_handler builds in its finally clause.
SynthDisconnection(room) ==
    Event("disconnection", room, NoText, NoTime, NoId, "", "")

\* str.strip(): leading and trailing whitespace removed.
RECURSIVE LStrip(_)
LStrip(s) ==
    IF s # <<>> /\ Head(s) = Space THEN LStrip(Tail(s)) ELSE s

RECURSIVE RStrip(_)
RStrip(s) ==
    IF s # <<>> /\ s[Len(s)] = Space THEN RStrip(SubSeq(s, 1, Len(s) - 1)) ELSE s

Strip(s) == RStrip(LStrip(s))

\* json.dumps of a dict, and what json.loads makes of a payload: the dict, or
\* a JSONDecodeError for a payload that is no JSON.
Dumps(data) == [json |-> TRUE, obj |-> data]
Garbage == [json |-> FALSE, obj |-> NoEvent]
IsJson(payload) == payload.json
Loads(payload) == payload.obj

\* ------------------------------------------------------- the agent's frames
Frame(fn, pc, attempt, delay, data, sock, res) ==
    [fn |-> fn, pc |-> pc, attempt |-> attempt, retry_delay |-> delay,
     data |-> data, ws |-> sock, res |-> res]

MainFrame(pc, data) == Frame("main", pc, 0, 0, data, None, "none")

\* connect_to_hub entered: attempt 0, retry_delay 2, awaiting websockets.connect.
ConnectFrame == Frame("connect", "connecting", 0, retry_delay, NoEvent, None, "none")

\* send_to_hub awaiting self.websocket.send.
SendFrame(data, sock) == Frame("send", "sending", 0, 0, data, sock, "none")

Top == stack[Len(stack)]
SetTop(s, f) == [s EXCEPT ![Len(s)] = f]
Pop(s) == SubSeq(s, 1, Len(s) - 1)
Push(s, f) == Append(s, f)
At(fn, pc) == stack # <<>> /\ Top.fn = fn /\ Top.pc = pc

\* Where a caller goes on when the coroutine it awaits returns.
AfterCall(pc) ==
    CASE pc = "init_connect" -> "init_ret"
      [] pc = "loop_send" -> "health_check"
      [] pc = "health_reconnect" -> "loop_sleep"
      [] pc = "sendconn" -> "sendconn_ret"
      [] pc = "reconnect" -> "reconnect_ret"
      [] pc = "task_send" -> "task_done"
      [] pc = "sd_send" -> "sd_send_ret"
      [] pc = "in_shutdown" -> "done"
      [] OTHER -> pc

\* The callee's frame is gone (s is the stack below it) and returned res.
Resume(s, res) ==
    SetTop(s, [s[Len(s)] EXCEPT !.pc = AfterCall(@), !.res = res])

\* A send_to_hub that tests only self.websocket.
NotConnectedSocketOnly(connected, sock) == sock = None

\* send_to_hub's first test.
NotConnected(connected, sock) == ~connected \/ sock = None

\* store_locally: one line appended.
StoreLocally(buf, data) == Append(buf, data)

\* await self.send_to_hub(data) by the frame on top of s, whose pc already says
\* what it waits for; connected and sock are self.is_connected and
\* self.websocket at the call.
CallSend(s, data, connected, sock) ==
    IF NotConnected(connected, sock)
    THEN /\ local_backup' = StoreLocally(local_backup, data)
         /\ stack' = Resume(s, "none")
    ELSE /\ UNCHANGED local_backup
         /\ stack' = Push(s, SendFrame(data, sock))

FreeConns == {c \in Conns : conn[c] = "unused"}

\* ------------------------------------------------------ the agent's actions
\* start_transcription calls connect_to_hub.
StartTranscription ==
    /\ At("main", "start")
    /\ stack' = Push(SetTop(stack, [Top EXCEPT !.pc = "init_connect"]), ConnectFrame)
    /\ UNCHANGED <<is_connected, websocket, transcription_counter, transcription_queue,
                   local_backup, worker_started, clock, sent>>
    /\ UNCHANGED <<netVars, hubVars, viewerVars, msgs, taskVars>>

\* websockets.connect returned a connection: the connection event is sent.
ConnectSuccess ==
    /\ At("connect", "connecting")
    /\ FreeConns # {}
    /\ LET c == CHOOSE x \in FreeConns : \A y \in FreeConns : x <= y
           msg == ConnectionMsg(AgentRoom, clock)
       IN /\ websocket' = c
          /\ is_connected' = TRUE
          /\ conn' = [conn EXCEPT ![c] = "open"]
          /\ clock' = clock + 1
          /\ CallSend(SetTop(stack, [Top EXCEPT !.pc = "sendconn"]), msg, TRUE, c)
    /\ UNCHANGED <<transcription_counter, transcription_queue, worker_started, sent, wire>>
    /\ UNCHANGED <<hubVars, viewerVars, msgs, taskVars>>

\* websockets.connect raised: sleep and retry, or give up after max_retries.
ConnectFail ==
    /\ At("connect", "connecting")
    /\ IF Top.attempt < max_retries - 1
       THEN stack' = SetTop(stack, [Top EXCEPT !.pc = "backoff"])
       ELSE stack' = Resume(Pop(stack), "false")
    /\ UNCHANGED <<is_connected, websocket, transcription_counter, transcription_queue,
                   local_backup, worker_started, clock, sent>>
    /\ UNCHANGED <<netVars, hubVars, viewerVars, msgs, taskVars>>

\* A connect_to_hub that waits the same delay before every retry.
BackoffDoneNoDoubling ==
    /\ At("connect", "backoff")
    /\ stack' = SetTop(stack, [Top EXCEPT !.pc = "connecting", !.attempt = @ + 1])
    /\ UNCHANGED <<is_connected, websocket, transcription_counter, transcription_queue,
                   local_backup, worker_started, clock, sent>>
    /\ UNCHANGED <<netVars, hubVars, viewerVars, msgs, taskVars>>

\* asyncio.sleep(retry_delay) is over: retry_delay *= 2, next attempt.
BackoffDone ==
    /\ At("connect", "backoff")
    /\ stack' = SetTop(stack, [Top EXCEPT !.pc = "connecting",
                                          !.attempt = @ + 1,
                                          !.retry_delay = @ * 2])
    /\ UNCHANGED <<is_connected, websocket, transcription_counter, transcription_queue,
                   local_backup, worker_started, clock, sent>>
    /\ UNCHANGED <<netVars, hubVars, viewerVars, msgs, taskVars>>

\* connect_to_hub's send_to_hub returned: return True.
ConnectReturn ==
    /\ At("connect", "sendconn_ret")
    /\ stack' = Resume(Pop(stack), "true")
    /\ UNCHANGED <<is_connected, websocket, transcription_counter, transcription_queue,
                   local_backup, worker_started, clock, sent>>
    /\ UNCHANGED <<netVars, hubVars, viewerVars, msgs, taskVars>>

\* A send_to_hub that keeps a local copy of what it has written as well.
SendOkAlsoStored ==
    /\ At("send", "sending")
    /\ conn[Top.ws] = "open"
    /\ wire' = [wire EXCEPT ![Top.ws] = Append(@, Dumps(Top.data))]
    /\ sent' = sent \cup {Top.data}
    /\ local_backup' = Append(local_backup, Top.data)
    /\ stack' = Resume(Pop(stack), "none")
    /\ UNCHANGED <<is_connected, websocket, transcription_counter, transcription_queue,
                   worker_started, clock, conn>>
    /\ UNCHANGED <<hubVars, viewerVars, msgs, taskVars>>

\* websocket.send wrote the payload.
SendOk ==
    /\ At("send", "sending")
    /\ conn[Top.ws] = "open"
    /\ wire' = [wire EXCEPT ![Top.ws] = Append(@, Dumps(Top.data))]
    /\ sent' = sent \cup {Top.data}
    /\ stack' = Resume(Pop(stack), "none")
    /\ UNCHANGED <<is_connected, websocket, transcription_counter, transcription_queue,
                   local_backup, worker_started, clock, conn>>
    /\ UNCHANGED <<hubVars, viewerVars, msgs, taskVars>>

\* websocket.send raised ConnectionClosed: is_connected = False, connect_to_hub().
SendClosed ==
    /\ At("send", "sending")
    /\ conn[Top.ws] # "open"
    /\ is_connected' = FALSE
    /\ stack' = Push(SetTop(stack, [Top EXCEPT !.pc = "reconnect"]), ConnectFrame)
    /\ UNCHANGED <<websocket, transcription_counter, transcription_queue,
                   local_backup, worker_started, clock, sent>>
    /\ UNCHANGED <<netVars, hubVars, viewerVars, msgs, taskVars>>

\* websocket.send raised another Exception: store_locally(data).
SendError ==
    /\ At("send", "sending")
    /\ local_backup' = StoreLocally(local_backup, Top.data)
    /\ stack' = Resume(Pop(stack), "none")
    /\ UNCHANGED <<is_connected, websocket, transcription_counter, transcription_queue,
                   worker_started, clock, sent>>
    /\ UNCHANGED <<netVars, hubVars, viewerVars, msgs, taskVars>>

\* send_to_hub's connect_to_hub returned: send_to_hub returns.
SendReturn ==
    /\ At("send", "reconnect_ret")
    /\ stack' = Resume(Pop(stack), "none")
    /\ UNCHANGED <<is_connected, websocket, transcription_counter, transcription_queue,
                   local_backup, worker_started, clock, sent>>
    /\ UNCHANGED <<netVars, hubVars, viewerVars, msgs, taskVars>>

\* start_transcription after connect_to_hub: the queue and the worker thread.
StartWorker ==
    /\ At("main", "init_ret")
    /\ worker_started' = TRUE
    /\ stack' = SetTop(stack, [Top EXCEPT !.pc = "loop_get"])
    /\ UNCHANGED <<is_connected, websocket, transcription_counter, transcription_queue,
                   local_backup, clock, sent>>
    /\ UNCHANGED <<netVars, hubVars, viewerVars, msgs, taskVars>>

\* The main loop: transcription_queue.get_nowait(), then send_to_hub.
LoopGet ==
    /\ At("main", "loop_get")
    /\ IF transcription_queue = <<>>
       THEN /\ stack' = SetTop(stack, [Top EXCEPT !.pc = "health_check"])
            /\ UNCHANGED <<transcription_queue, local_backup>>
       ELSE /\ transcription_queue' = Tail(transcription_queue)
            /\ CallSend(SetTop(stack, [Top EXCEPT !.pc = "loop_send",
                                                  !.data = Head(transcription_queue)]),
                        Head(transcription_queue), is_connected, websocket)
    /\ UNCHANGED <<is_connected, websocket, transcription_counter, worker_started,
                   clock, sent>>
    /\ UNCHANGED <<netVars, hubVars, viewerVars, msgs, taskVars>>

\* The main loop: if self.is_connected and self.websocket, ping.
HealthCheck ==
    /\ At("main", "health_check")
    /\ IF is_connected /\ websocket # None
       THEN stack' = SetTop(stack, [Top EXCEPT !.pc = "pinging", !.ws = websocket])
       ELSE stack' = SetTop(stack, [Top EXCEPT !.pc = "loop_sleep"])
    /\ UNCHANGED <<is_connected, websocket, transcription_counter, transcription_queue,
                   local_backup, worker_started, clock, sent>>
    /\ UNCHANGED <<netVars, hubVars, viewerVars, msgs, taskVars>>

\* The pong came within the timeout.
PingOk ==
    /\ At("main", "pinging")
    /\ conn[Top.ws] = "open"
    /\ stack' = SetTop(stack, [Top EXCEPT !.pc = "loop_sleep"])
    /\ UNCHANGED <<is_connected, websocket, transcription_counter, transcription_queue,
                   local_backup, worker_started, clock, sent>>
    /\ UNCHANGED <<netVars, hubVars, viewerVars, msgs, taskVars>>

\* A health check that marks the agent disconnected but does not reconnect.
PingFailNoReconnect ==
    /\ At("main", "pinging")
    /\ is_connected' = FALSE
    /\ stack' = SetTop(stack, [Top EXCEPT !.pc = "loop_sleep"])
    /\ UNCHANGED <<websocket, transcription_counter, transcription_queue,
                   local_backup, worker_started, clock, sent>>
    /\ UNCHANGED <<netVars, hubVars, viewerVars, msgs, taskVars>>

\* ping raised or the pong timed out: is_connected = False, connect_to_hub().
PingFail ==
    /\ At("main", "pinging")
    /\ is_connected' = FALSE
    /\ stack' = Push(SetTop(stack, [Top EXCEPT !.pc = "health_reconnect"]), ConnectFrame)
    /\ UNCHANGED <<websocket, transcription_counter, transcription_queue,
                   local_backup, worker_started, clock, sent>>
    /\ UNCHANGED <<netVars, hubVars, viewerVars, msgs, taskVars>>

\* asyncio.sleep(0.1) is over.
LoopSleep ==
    /\ At("main", "loop_sleep")
    /\ stack' = SetTop(stack, [Top EXCEPT !.pc = "loop_get"])
    /\ UNCHANGED <<is_connected, websocket, transcription_counter, transcription_queue,
                   local_backup, worker_started, clock, sent>>
    /\ UNCHANGED <<netVars, hubVars, viewerVars, msgs, taskVars>>

\* A process_final_text that hands a final over only while the loop is idle in
\* its asyncio.sleep(0.1).
ProcessFinalTextWaitingForLoop ==
    /\ worker_started
    /\ ~recorder_stopped
    /\ transcription_counter < MaxFinals
    /\ At("main", "loop_sleep")
    /\ \E text \in Texts :
          /\ Strip(text) # <<>>
          /\ transcription_counter' = transcription_counter + 1
          /\ transcription_queue' =
                Append(transcription_queue,
                       FinalMsg(AgentRoom, Strip(text), clock, transcription_counter + 1))
          /\ clock' = clock + 1
    /\ UNCHANGED <<is_connected, websocket, local_backup, stack, worker_started, sent>>
    /\ UNCHANGED <<netVars, hubVars, viewerVars, msgs, taskVars>>

\* The worker thread: process_final_text(text).
ProcessFinalText ==
    /\ worker_started
    /\ ~recorder_stopped
    /\ transcription_counter < MaxFinals
    /\ \E text \in Texts :
          /\ Strip(text) # <<>>
          /\ transcription_counter' = transcription_counter + 1
          /\ transcription_queue' =
                Append(transcription_queue,
                       FinalMsg(AgentRoom, Strip(text), clock, transcription_counter + 1))
          /\ clock' = clock + 1
    /\ UNCHANGED <<is_connected, websocket, local_backup, stack, worker_started, sent>>
    /\ UNCHANGED <<netVars, hubVars, viewerVars, msgs, taskVars>>

\* --------------------------------------------- partial tasks and shutdown
\* The coroutine asyncio.create_task wraps: send_to_hub(data), not yet started.
TaskFrame(data) == Frame("task", "task_start", 0, 0, data, None, "none")

\* shutdown() entered.
ShutdownFrame == Frame("shutdown", "stop_recorder", 0, 0, NoEvent, None, "none")

\* Where a coroutine is suspended and the loop may run another task: in
\* websockets.connect, asyncio.sleep, the wait for a pong, close(), and in
\* websocket.send once the payload is written (until then send does not yield).
YieldPcs == {"connecting", "backoff", "loop_sleep", "pinging", "closing", "done",
             "sendconn_ret", "health_check", "sd_send_ret"}

\* The texts the recorder reports as partial transcriptions.
PartialTexts == {<<"a">>}

\* The id on_partial_transcription gives a partial.
PartialId(counter) == counter

\* The recorder calls on_partial_transcription(text): the partial is built and
\* handed to asyncio.create_task, which makes a task when the calling thread
\* runs the loop and raises RuntimeError when it does not.
OnPartialTranscription ==
    /\ worker_started
    /\ ~recorder_stopped
    /\ partials < MaxPartials
    /\ partials' = partials + 1
    /\ clock' = clock + 1
    /\ \E text \in PartialTexts, running_loop \in BOOLEAN :
          suspended' =
             IF running_loop
             THEN Append(suspended,
                         <<TaskFrame(PartialMsg(AgentRoom, text, clock,
                                                PartialId(transcription_counter)))>>)
             ELSE suspended
    /\ UNCHANGED <<is_connected, websocket, transcription_counter, transcription_queue,
                   local_backup, stack, worker_started, sent, recorder_stopped, shutdowns>>
    /\ UNCHANGED <<netVars, hubVars, viewerVars, msgs>>

\* The running coroutine is suspended in an await: the loop runs another task.
Switch ==
    /\ stack # <<>>
    /\ Top.pc \in YieldPcs
    /\ \E i \in 1..Len(suspended) :
          /\ stack' = suspended[i]
          /\ suspended' = [suspended EXCEPT ![i] = stack]
    /\ UNCHANGED <<is_connected, websocket, transcription_counter, transcription_queue,
                   local_backup, worker_started, clock, sent, recorder_stopped,
                   partials, shutdowns>>
    /\ UNCHANGED <<netVars, hubVars, viewerVars, msgs>>

\* A partial's task starts: send_to_hub(data).
TaskStart ==
    /\ At("task", "task_start")
    /\ CallSend(SetTop(stack, [Top EXCEPT !.pc = "task_send"]), Top.data,
                is_connected, websocket)
    /\ UNCHANGED <<is_connected, websocket, transcription_counter, transcription_queue,
                   worker_started, clock, sent>>
    /\ UNCHANGED <<netVars, hubVars, viewerVars, msgs, taskVars>>

\* A partial's task is over: the loop runs another task.
TaskDone ==
    /\ At("task", "task_done")
    /\ \E i \in 1..Len(suspended) :
          /\ stack' = suspended[i]
          /\ suspended' = SubSeq(suspended, 1, i - 1)
                             \o SubSeq(suspended, i + 1, Len(suspended))
    /\ UNCHANGED <<is_connected, websocket, transcription_counter, transcription_queue,
                   local_backup, worker_started, clock, sent, recorder_stopped,
                   partials, shutdowns>>
    /\ UNCHANGED <<netVars, hubVars, viewerVars, msgs>>

\* KeyboardInterrupt reaches start_transcription in an await of its main loop:
\* the coroutines it awaits are unwound and shutdown() is called.  (In the
\* wait for the pong the bare except takes it: that is PingFail.)
Interrupt ==
    /\ stack # <<>>
    /\ stack[1].fn = "main"
    /\ stack[1].pc \in {"loop_send", "health_reconnect", "loop_sleep"}
    /\ shutdowns < MaxShutdowns
    /\ shutdowns' = shutdowns + 1
    /\ stack' = <<[stack[1] EXCEPT !.pc = "in_shutdown"], ShutdownFrame>>
    /\ UNCHANGED <<is_connected, websocket, transcription_counter, transcription_queue,
                   local_backup, worker_started, clock, sent, suspended,
                   recorder_stopped, partials>>
    /\ UNCHANGED <<netVars, hubVars, viewerVars, msgs>>

\* shutdown() is called again after a shutdown() that has returned.
ShutdownAgain ==
    /\ At("main", "done")
    /\ shutdowns < MaxShutdowns
    /\ shutdowns' = shutdowns + 1
    /\ stack' = Push(SetTop(stack, [Top EXCEPT !.pc = "in_shutdown"]), ShutdownFrame)
    /\ UNCHANGED <<is_connected, websocket, transcription_counter, transcription_queue,
                   local_backup, worker_started, clock, sent, suspended,
                   recorder_stopped, partials>>
    /\ UNCHANGED <<netVars, hubVars, viewerVars, msgs>>

\* A shutdown() that goes on to close the transport without the notice.
ShutdownStopRecorderCloseFirst ==
    /\ At("shutdown", "stop_recorder")
    /\ recorder_stopped' = TRUE
    /\ stack' = SetTop(stack, [Top EXCEPT !.pc = "sd_send_ret"])
    /\ UNCHANGED <<is_connected, websocket, transcription_counter, transcription_queue,
                   local_backup, worker_started, clock, sent, suspended, partials,
                   shutdowns>>
    /\ UNCHANGED <<netVars, hubVars, viewerVars, msgs>>

\* shutdown(): recorder.shutdown(), then, if self.websocket, the disconnection
\* message goes to send_to_hub.
ShutdownStopRecorder ==
    /\ At("shutdown", "stop_recorder")
    /\ recorder_stopped' = TRUE
    /\ IF websocket # None
       THEN /\ clock' = clock + 1
            /\ CallSend(SetTop(stack, [Top EXCEPT !.pc = "sd_send",
                                                  !.data = DisconnectionMsg(AgentRoom, clock)]),
                        DisconnectionMsg(AgentRoom, clock), is_connected, websocket)
       ELSE /\ stack' = Resume(Pop(stack), "none")
            /\ UNCHANGED <<clock, local_backup>>
    /\ UNCHANGED <<is_connected, websocket, transcription_counter, transcription_queue,
                   worker_started, sent, suspended, partials, shutdowns>>
    /\ UNCHANGED <<netVars, hubVars, viewerVars, msgs>>

\* shutdown(): send_to_hub has returned; self.websocket.close() is called.
ShutdownClose ==
    /\ At("shutdown", "sd_send_ret")
    /\ conn' = IF conn[websocket] = "open" THEN [conn EXCEPT ![websocket] = "closed"]
                                           ELSE conn
    /\ stack' = SetTop(stack, [Top EXCEPT !.pc = "closing"])
    /\ UNCHANGED <<is_connected, websocket, transcription_counter, transcription_queue,
                   local_backup, worker_started, clock, sent, wire>>
    /\ UNCHANGED <<hubVars, viewerVars, msgs, taskVars>>

\* shutdown(): close() is over; shutdown returns.
ShutdownReturn ==
    /\ At("shutdown", "closing")
    /\ stack' = Resume(Pop(stack), "none")
    /\ UNCHANGED <<is_connected, websocket, transcription_counter, transcription_queue,
                   local_backup, worker_started, clock, sent>>
    /\ UNCHANGED <<netVars, hubVars, viewerVars, msgs, taskVars>>

\* The agent's transport breaks, or the hub's side of it goes away.
TransportClose ==
    /\ \E c \in Conns :
          /\ conn[c] = "open"
          /\ conn' = [conn EXCEPT ![c] = "closed"]
    /\ UNCHANGED <<agentVars, wire, hubVars, viewerVars, msgs>>

AgentNext ==
    \/ StartTranscription
    \/ ConnectSuccess
    \/ ConnectFail
    \/ BackoffDone
    \/ ConnectReturn
    \/ SendOk
    \/ SendClosed
    \/ SendError
    \/ SendReturn
    \/ StartWorker
    \/ LoopGet
    \/ HealthCheck
    \/ PingOk
    \/ PingFail
    \/ LoopSleep
    \/ ProcessFinalText
    \/ TransportClose

PartialNext ==
    \/ OnPartialTranscription
    \/ Switch
    \/ TaskStart
    \/ TaskDone

ShutdownNext ==
    \/ Interrupt
    \/ ShutdownAgain
    \/ ShutdownStopRecorder
    \/ ShutdownClose
    \/ ShutdownReturn


\* ------------------------------------------------------------ the registry
\* connected_rooms is the dict's items in insertion order, each a
\* [room, status]; assigning to a key the dict holds keeps the key's place.
HasRoom(cr, room) == \E i \in 1..Len(cr) : cr[i].room = room

StatusOf(cr, room) ==
    IF HasRoom(cr, room)
    THEN (CHOOSE it \in {cr[i] : i \in 1..Len(cr)} : it.room = room).status
    ELSE "absent"

\* A registry that adds an item on every assignment.
SetRoomAppending(cr, room, status) ==
    Append(cr, [room |-> room, status |-> status])

\* connected_rooms[room] = {'status': status, ...}
SetRoom(cr, room, status) ==
    IF HasRoom(cr, room)
    THEN [i \in 1..Len(cr) |->
            IF cr[i].room = room THEN [room |-> room, status |-> status] ELSE cr[i]]
    ELSE Append(cr, [room |-> room, status |-> status])

\* A process_room_message that records a disconnection for any room.
RoomsAfterDisconnectCreates(cr, data) ==
    CASE data.type = "connection" -> SetRoom(cr, data.room, "connected")
      [] data.type = "disconnection" -> SetRoom(cr, data.room, "disconnected")
      [] data.type \in {"partial", "final"} -> SetRoom(cr, data.room, "connected")
      [] OTHER -> cr

\* process_room_message under _lock: connected_rooms afterwards.
RoomsAfter(cr, data) ==
    CASE data.type = "connection" -> SetRoom(cr, data.room, "connected")
      [] data.type = "disconnection" ->
            IF HasRoom(cr, data.room) THEN SetRoom(cr, data.room, "disconnected") ELSE cr
      [] data.type \in {"partial", "final"} -> SetRoom(cr, data.room, "connected")
      [] OTHER -> cr

\* A process_room_message that forgets a room's transcripts when it disconnects.
HistoryAfterForgetting(h, data) ==
    CASE data.type = "final" -> [h EXCEPT ![data.room] = Append(@, data)]
      [] data.type = "disconnection" /\ data.room \in DOMAIN h -> [h EXCEPT ![data.room] = <<>>]
      [] OTHER -> h

\* A process_room_message that stores partials as well.
HistoryAfterStoringPartials(h, data) ==
    IF data.type \in {"partial", "final"}
    THEN [h EXCEPT ![data.room] = Append(@, data)]
    ELSE h

\* process_room_message under _lock: transcription_history afterwards.
HistoryAfter(h, data) ==
    IF data.type = "final" THEN [h EXCEPT ![data.room] = Append(@, data)] ELSE h

\* A process_room_message that counts partials as transcriptions too.
StatsAfterCountingPartials(st, data) ==
    IF data.type \in {"partial", "final"} THEN [st EXCEPT ![data.room] = @ + 1] ELSE st

\* process_room_message under _lock: room_stats afterwards.
StatsAfter(st, data) ==
    IF data.type = "final" THEN [st EXCEPT ![data.room] = @ + 1] ELSE st

\* What process_room_message emits for data, outside the lock: nothing for a
\* type it does not know.
RoomConnected(room) == [event |-> "room_connected", room |-> room, data |-> NoEvent]
RoomDisconnected(room) == [event |-> "room_disconnected", room |-> room, data |-> NoEvent]
TranscriptionUpdate(data) == [event |-> "transcription_update", room |-> data.room, data |-> data]

\* A process_room_message that broadcasts finals but not partials.
EmitsNoPartial(data) ==
    CASE data.type = "connection" -> <<RoomConnected(data.room)>>
      [] data.type = "disconnection" -> <<RoomDisconnected(data.room)>>
      [] data.type = "final" -> <<TranscriptionUpdate(data)>>
      [] OTHER -> <<>>

Emits(data) ==
    CASE data.type = "connection" -> <<RoomConnected(data.room)>>
      [] data.type = "disconnection" -> <<RoomDisconnected(data.room)>>
      [] data.type \in {"partial", "final"} -> <<TranscriptionUpdate(data)>>
      [] OTHER -> <<>>

\* socketio.emit without a recipient writes to every viewer, in this order.
ViewerSeq == <<"v1", "v2">>

WsIdle == [pc |-> "idle", c |-> None, fin |-> FALSE, data |-> NoEvent,
           emits |-> <<>>, todo |-> <<>>]

\* ------------------------------------------- the hub's websocket thread
\* A connection_handler that can take its next message while the broadcast of
\* the previous one is still being written, as if process_room_message
\* yielded to the event loop.
HubRecvDuringEmit(c) ==
    /\ ws.pc \in {"idle", "emit"}
    /\ conn[c] \in {"open", "closed"}
    /\ wire[c] # <<>>
    /\ wire' = [wire EXCEPT ![c] = Tail(@)]
    /\ LET payload == Head(wire[c])
           data == Loads(payload)
       IN IF ~IsJson(payload) \/ data.room = NoRoom
          THEN UNCHANGED <<room_name, ws>>
          ELSE /\ room_name' = [room_name EXCEPT ![c] = IF @ = NoRoom THEN data.room ELSE @]
               /\ ws' = [WsIdle EXCEPT !.pc = "prm_lock", !.c = c, !.data = data]
    /\ UNCHANGED <<agentVars, conn, registryVars, lock, viewerVars, msgs>>

\* connection_handler: the next message of connection c.
HubRecv(c) ==
    /\ ws.pc = "idle"
    /\ conn[c] \in {"open", "closed"}
    /\ wire[c] # <<>>
    /\ wire' = [wire EXCEPT ![c] = Tail(@)]
    /\ LET payload == Head(wire[c])
           data == Loads(payload)
       IN IF ~IsJson(payload) \/ data.room = NoRoom
          THEN UNCHANGED <<room_name, ws>>
          ELSE /\ room_name' = [room_name EXCEPT ![c] = IF @ = NoRoom THEN data.room ELSE @]
               /\ ws' = [WsIdle EXCEPT !.pc = "prm_lock", !.c = c, !.data = data]
    /\ UNCHANGED <<agentVars, conn, registryVars, lock, viewerVars, msgs>>

\* A connection_handler without the finally clause.
HubClosedNoFinally(c) ==
    /\ ws.pc = "idle"
    /\ conn[c] = "closed"
    /\ wire[c] = <<>>
    /\ conn' = [conn EXCEPT ![c] = "done"]
    /\ UNCHANGED <<agentVars, wire, hubVars, viewerVars, msgs>>

\* connection_handler: the connection is closed and read to its end; finally.
HubClosed(c) ==
    /\ ws.pc = "idle"
    /\ conn[c] = "closed"
    /\ wire[c] = <<>>
    /\ IF room_name[c] # NoRoom
       THEN /\ ws' = [WsIdle EXCEPT !.pc = "prm_lock", !.c = c, !.fin = TRUE,
                                    !.data = SynthDisconnection(room_name[c])]
            /\ UNCHANGED conn
       ELSE /\ conn' = [conn EXCEPT ![c] = "done"]
            /\ UNCHANGED ws
    /\ UNCHANGED <<agentVars, wire, room_name, registryVars, lock, viewerVars, msgs>>

\* process_room_message: with _lock, the registry is updated.
PrmEnter ==
    /\ ws.pc = "prm_lock"
    /\ lock = "free"
    /\ lock' = "ws"
    /\ connected_rooms' = RoomsAfter(connected_rooms, ws.data)
    /\ transcription_history' = HistoryAfter(transcription_history, ws.data)
    /\ room_stats' = StatsAfter(room_stats, ws.data)
    /\ ws' = [ws EXCEPT !.pc = "prm_locked"]
    /\ UNCHANGED <<agentVars, netVars, room_name, viewerVars, msgs>>

\* process_room_message: the with block ends; socketio.emit is called.
PrmExit ==
    /\ ws.pc = "prm_locked"
    /\ lock' = "free"
    /\ ws' = [ws EXCEPT !.pc = IF Emits(ws.data) = <<>> THEN "prm_ret" ELSE "emit",
                        !.emits = Emits(ws.data),
                        !.todo = IF Emits(ws.data) = <<>> THEN <<>> ELSE ViewerSeq]
    /\ UNCHANGED <<agentVars, netVars, room_name, registryVars, viewerVars, msgs>>

\* The viewer page's handlers: room_connected and room_disconnected set the
\* room's status, transcription_update does not.
UpdateRoomStatus(ls, v, msg) ==
    IF msg.event \in {"room_connected", "room_disconnected"} /\ msg.room \in Rooms
    THEN [ls EXCEPT ![v][msg.room] = msg.event]
    ELSE ls

\* socketio.emit: the write to the next viewer.
PrmEmit ==
    /\ ws.pc = "emit"
    /\ Head(ws.todo) \notin stalled
    /\ ws' = [ws EXCEPT !.todo = Tail(@),
                        !.pc = IF Tail(ws.todo) = <<>> THEN "prm_ret" ELSE "emit"]
    /\ last_status' = UpdateRoomStatus(last_status, Head(ws.todo), ws.emits[1])
    /\ UNCHANGED <<agentVars, netVars, room_name, registryVars, lock, viewer, stalled,
                   requests, msgs>>

\* process_room_message returns to connection_handler.
PrmReturn ==
    /\ ws.pc = "prm_ret"
    /\ ws' = WsIdle
    /\ conn' = IF ws.fin THEN [conn EXCEPT ![ws.c] = "done"] ELSE conn
    /\ UNCHANGED <<agentVars, wire, room_name, registryVars, lock, viewerVars, msgs>>

WsNext ==
    \/ \E c \in Conns : HubRecv(c)
    \/ \E c \in Conns : HubClosed(c)
    \/ PrmEnter
    \/ PrmExit
    \/ PrmEmit
    \/ PrmReturn

\* ------------------------------------ the viewers' get_room_status threads
\* A viewer sends get_room_status.
StatusRequest(v) ==
    /\ viewer[v].pc = "idle"
    /\ requests < MaxRequests
    /\ requests' = requests + 1
    /\ viewer' = [viewer EXCEPT ![v] = [pc |-> "sr_lock", todo |-> <<>>, reply |-> <<>>]]
    /\ UNCHANGED <<agentVars, netVars, hubVars, stalled, msgs, last_status>>

\* handle_room_status_request: with _lock, connected_rooms.items().
SrLock(v) ==
    /\ viewer[v].pc = "sr_lock"
    /\ lock = "free"
    /\ lock' = v
    /\ viewer' = [viewer EXCEPT ![v].pc = "sr_iter", ![v].todo = connected_rooms]
    /\ UNCHANGED <<agentVars, netVars, room_name, registryVars, ws, stalled, requests,
                   msgs, last_status>>

\* A handle_room_status_request that does not test the status.
SrIterEveryRoom(v) ==
    /\ viewer[v].pc = "sr_iter"
    /\ viewer[v].todo # <<>>
    /\ viewer' = [viewer EXCEPT ![v].pc = "sr_emit"]
    /\ UNCHANGED <<agentVars, netVars, hubVars, stalled, requests, msgs, last_status>>

\* handle_room_status_request: the next item; emit is called for a connected room.
SrIter(v) ==
    /\ viewer[v].pc = "sr_iter"
    /\ viewer[v].todo # <<>>
    /\ IF Head(viewer[v].todo).status = "connected"
       THEN viewer' = [viewer EXCEPT ![v].pc = "sr_emit"]
       ELSE viewer' = [viewer EXCEPT ![v].todo = Tail(@)]
    /\ UNCHANGED <<agentVars, netVars, hubVars, stalled, requests, msgs, last_status>>

\* emit('room_connected', ...): the write to the asking viewer.
SrEmit(v) ==
    /\ viewer[v].pc = "sr_emit"
    /\ v \notin stalled
    /\ viewer' = [viewer EXCEPT ![v].pc = "sr_iter",
                                ![v].reply = Append(@, RoomConnected(Head(viewer[v].todo).room)),
                                ![v].todo = Tail(@)]
    /\ last_status' = UpdateRoomStatus(last_status, v,
                                       RoomConnected(Head(viewer[v].todo).room))
    /\ UNCHANGED <<agentVars, netVars, hubVars, stalled, requests, msgs>>

\* handle_room_status_request: the with block ends.
SrUnlock(v) ==
    /\ viewer[v].pc = "sr_iter"
    /\ viewer[v].todo = <<>>
    /\ lock' = "free"
    /\ viewer' = [viewer EXCEPT ![v].pc = "idle"]
    /\ UNCHANGED <<agentVars, netVars, room_name, registryVars, ws, stalled, requests,
                   msgs, last_status>>

ViewerNext ==
    \/ \E v \in Viewers : StatusRequest(v)
    \/ \E v \in Viewers : SrLock(v)
    \/ \E v \in Viewers : SrIter(v)
    \/ \E v \in Viewers : SrEmit(v)
    \/ \E v \in Viewers : SrUnlock(v)

\* A viewer's socket stops accepting writes, for good.
Stall ==
    /\ Cardinality(stalled) < MaxStalled
    /\ \E v \in Viewers \ stalled : stalled' = stalled \cup {v}
    /\ UNCHANGED <<agentVars, netVars, hubVars, viewer, requests, msgs, last_status>>

\* ------------------------------------------- clients of the hub's websocket
\* What a client may send: the four events of the protocol for every room, and
\* payloads that are no JSON, name no room, have no known type, or are a final
\* without text and id.
ClientEvents ==
    {ConnectionMsg(r, 0) : r \in Rooms} \cup {DisconnectionMsg(r, 0) : r \in Rooms}
    \cup {PartialMsg(r, <<"a">>, 0, 0) : r \in Rooms}
    \cup {FinalMsg(r, <<"a">>, 0, k) : r \in Rooms, k \in 1..MaxFinals}

ClientPayloads ==
    {Dumps(e) : e \in ClientEvents}
    \cup {Garbage, Dumps(FinalMsg(NoRoom, <<"a">>, 0, 1)),
          Dumps(Event("", AgentRoom, <<"a">>, 0, 1, "", "")),
          Dumps(Event("final", AgentRoom, NoText, 0, NoId, "0.9", ""))}

\* A client connects to the websocket port.
ClientOpen ==
    /\ FreeConns # {}
    /\ conn' = [conn EXCEPT ![CHOOSE x \in FreeConns : \A y \in FreeConns : x <= y] = "open"]
    /\ UNCHANGED <<agentVars, wire, hubVars, viewerVars, msgs>>

\* A client writes a payload.
ClientSend ==
    /\ msgs < MaxMsgs
    /\ \E c \in Conns, p \in ClientPayloads :
          /\ conn[c] = "open"
          /\ Len(wire[c]) < MaxWire
          /\ wire' = [wire EXCEPT ![c] = Append(@, p)]
    /\ msgs' = msgs + 1
    /\ UNCHANGED <<agentVars, conn, hubVars, viewerVars>>

ClientNext ==
    \/ ClientOpen
    \/ ClientSend
    \/ TransportClose

\* ------------------------------------------------------------------ Init
Init ==
    /\ is_connected = FALSE
    /\ websocket = None
    /\ transcription_counter = 0
    /\ transcription_queue = <<>>
    /\ local_backup = <<>>
    /\ stack = <<MainFrame("start", NoEvent)>>
    /\ worker_started = FALSE
    /\ clock = 0
    /\ sent = {}
    /\ conn = [c \in Conns |-> "unused"]
    /\ wire = [c \in Conns |-> <<>>]
    /\ room_name = [c \in Conns |-> NoRoom]
    /\ connected_rooms = <<>>
    /\ transcription_history = [r \in Rooms |-> <<>>]
    /\ room_stats = [r \in Rooms |-> 0]
    /\ lock = "free"
    /\ ws = WsIdle
    /\ viewer = [v \in Viewers |-> [pc |-> "idle", todo |-> <<>>, reply |-> <<>>]]
    /\ stalled = {}
    /\ msgs = 0
    /\ requests = 0
    /\ last_status = [v \in Viewers |-> [r \in Rooms |-> "none"]]
    /\ suspended = <<>>
    /\ recorder_stopped = FALSE
    /\ partials = 0
    /\ shutdowns = 0

AgentSpec == Init /\ [][AgentNext]_vars

\* The agent keeps running, and a hub that is asked again and again accepts a
\* connection.
AgentFairness ==
    /\ WF_vars(AgentNext)
    /\ SF_vars(ConnectSuccess)

AgentLiveSpec == Init /\ [][AgentNext]_vars /\ AgentFairness

TaskAgentNext == AgentNext \/ PartialNext

TaskSpec == Init /\ [][TaskAgentNext]_vars

ShutdownAgentNext == AgentNext \/ ShutdownNext

ShutdownSpec == Init /\ [][ShutdownAgentNext]_vars

HubNext == ClientNext \/ WsNext \/ ViewerNext

HubSpec == Init /\ [][HubNext]_vars

Next == AgentNext \/ WsNext

Spec == Init /\ [][Next]_vars

\* The hub's threads run whenever they can: the asyncio loop serves a ready
\* handler, and a thread that waits for _lock gets it once it stays free.
HubFairness ==
    /\ WF_vars(WsNext)
    /\ \A v \in Viewers : WF_vars(SrLock(v) \/ SrIter(v) \/ SrEmit(v) \/ SrUnlock(v))

HubLiveSpec == Init /\ [][HubNext]_vars /\ HubFairness

StallNext == HubNext \/ Stall

StallSpec == Init /\ [][StallNext]_vars /\ HubFairness

\* ------------------------------------------------------------ properties
Range(q) == {q[i] : i \in 1..Len(q)}
IsPrefix(p, q) == Len(p) <= Len(q) /\ SubSeq(q, 1, Len(p)) = p
Count(q, x) == Cardinality({i \in 1..Len(q) : q[i] = x})
EventTypes == {"connection", "disconnection", "partial", "final"}

\* An event of the protocol: one of the four types, and a room.
ValidEvent(data) == data.type \in EventTypes /\ data.room # NoRoom

\* The finals process_final_text has built that the main loop still holds: in
\* the queue, or in a send_to_hub that has not returned.
QueuedFinals == Range(transcription_queue)
FinalsBeingSent ==
    {stack[i].data : i \in {j \in 1..Len(stack) :
                               stack[j].fn = "main" /\ stack[j].pc = "loop_send"}}
BuiltFinalIds == 1..transcription_counter

\* C1: every Final the agent has built is on its way (queued, or in a
\* send_to_hub that has not returned), or was written to the hub's transport,
\* or is in the local buffer: none is dropped, whatever the connection state
\* at the send, a failed write on a closed transport included.
C1_FinalNeverDropped ==
    \A k \in BuiltFinalIds :
        \E e \in QueuedFinals \cup FinalsBeingSent \cup sent \cup Range(local_backup) :
            e.type = "final" /\ e.id = k

\* C2: applying a Disconnection (sent or synthesized) or a Connection leaves
\* every room's history and counter as they were, and no step of the hub ever
\* shortens a history or lowers a counter.
C2_DisconnectionKeepsHistory ==
    [][/\ (ws.pc = "prm_lock" /\ ws'.pc = "prm_locked"
           /\ ws.data.type \in {"connection", "disconnection"})
          => (transcription_history' = transcription_history /\ room_stats' = room_stats)
       /\ \A r \in Rooms :
             /\ IsPrefix(transcription_history[r], transcription_history'[r])
             /\ room_stats'[r] >= room_stats[r]]_vars

\* A Connection is applied for a room that has history, after a connection of
\* that room was closed and its Disconnection synthesized.
C2_Witness ==
    /\ ws.pc = "prm_locked"
    /\ ws.data.type = "connection"
    /\ transcription_history[ws.data.room] # <<>>
    /\ room_stats[ws.data.room] > 0
    /\ \E c \in Conns : conn[c] = "done" /\ room_name[c] = ws.data.room

\* C3: for every room, the ids of the finals in TranscriptHistory, in arrival
\* order, are strictly increasing and start at 1.
C3_HistoryIdsIncreaseFromOne ==
    \A r \in Rooms :
        LET h == transcription_history[r]
        IN /\ h # <<>> => h[1].id = 1
           /\ \A i \in 1..Len(h) - 1 : h[i].id < h[i + 1].id

\* C4: once a connection that named a room with a session is closed, the
\* handler comes to apply a synthesized Disconnection for that room through
\* process_room_message: the room is Disconnected in the Registry and
\* room_disconnected has been written to every viewer.
C4_ClosureSynthesizesDisconnection ==
    \A c \in Conns :
        (conn[c] = "closed" /\ room_name[c] # NoRoom /\ HasRoom(connected_rooms, room_name[c]))
        ~> (/\ ws.pc = "prm_ret" /\ ws.fin /\ ws.c = c
            /\ ws.data.type = "disconnection" /\ ws.data.room = room_name[c]
            /\ StatusOf(connected_rooms, room_name[c]) = "disconnected"
            /\ ws.emits = <<RoomDisconnected(room_name[c])>>
            /\ ws.todo = <<>>)

\* The synthesized Disconnection of a connection has been applied and broadcast.
C4_Witness ==
    /\ ws.pc = "prm_ret" /\ ws.fin
    /\ ws.data = SynthDisconnection(room_name[ws.c])
    /\ StatusOf(connected_rooms, ws.data.room) = "disconnected"
    /\ ws.emits = <<RoomDisconnected(ws.data.room)>>

\* C5: when the handler of get_room_status has gone through the rooms, the
\* viewer was written exactly one room_connected for every Connected room,
\* none for any other room, and nothing else.
C5_StatusReplyIsConnectedRooms ==
    \A v \in Viewers :
        (viewer[v].pc = "sr_iter" /\ viewer[v].todo = <<>>)
        => /\ \A r \in Rooms :
                 Count(viewer[v].reply, RoomConnected(r))
                    = IF StatusOf(connected_rooms, r) = "connected" THEN 1 ELSE 0
           /\ \A i \in 1..Len(viewer[v].reply) :
                 /\ viewer[v].reply[i].event = "room_connected"
                 /\ viewer[v].reply[i].room \in Rooms

\* A reply is complete with one room Connected and another Disconnected.
C5_Witness ==
    \E v \in Viewers :
        /\ viewer[v].pc = "sr_iter" /\ viewer[v].todo = <<>>
        /\ Len(viewer[v].reply) = 1
        /\ \E r \in Rooms : StatusOf(connected_rooms, r) = "disconnected"

\* C6: a valid event read from a connection is handed to
\* process_room_message; once applied the Registry shows it; and when
\* process_room_message returns, exactly one message was broadcast, to every
\* viewer: room_connected, room_disconnected, or transcription_update with the
\* event itself.
C6_Applied ==
    (ws.pc = "prm_locked" /\ ValidEvent(ws.data))
    => /\ ws.data.type \in {"connection", "partial", "final"}
             => StatusOf(connected_rooms, ws.data.room) = "connected"
       /\ ws.data.type = "disconnection"
             => StatusOf(connected_rooms, ws.data.room) # "connected"
       /\ ws.data.type = "final"
             => /\ transcription_history[ws.data.room] # <<>>
                /\ transcription_history[ws.data.room]
                       [Len(transcription_history[ws.data.room])] = ws.data

C6_Broadcast ==
    (ws.pc = "prm_ret" /\ ValidEvent(ws.data))
    => /\ ws.todo = <<>>
       /\ Len(ws.emits) = 1
       /\ ws.data.type = "connection"
             => ws.emits[1] = [event |-> "room_connected", room |-> ws.data.room,
                               data |-> NoEvent]
       /\ ws.data.type = "disconnection"
             => ws.emits[1] = [event |-> "room_disconnected", room |-> ws.data.room,
                               data |-> NoEvent]
       /\ ws.data.type \in {"partial", "final"}
             => ws.emits[1] = [event |-> "transcription_update", room |-> ws.data.room,
                               data |-> ws.data]

C6_NotRejected ==
    \A c \in Conns :
        (/\ wire[c] # <<>>
         /\ wire'[c] = Tail(wire[c])
         /\ IsJson(Head(wire[c]))
         /\ ValidEvent(Loads(Head(wire[c]))))
        => (ws'.pc = "prm_lock" /\ ws'.data = Loads(Head(wire[c])) /\ ws'.c = c)

\* C6: every valid event received is handed on, applied, and broadcast
\* exactly once as the viewer message of its type (the three parts above).
C6_ValidEventAppliedAndBroadcastOnce ==
    /\ [](C6_Applied /\ C6_Broadcast)
    /\ [][C6_NotRejected]_vars

\* A partial has been applied and broadcast as a transcription_update.
C6_Witness ==
    /\ ws.pc = "prm_ret"
    /\ ws.data.type = "partial"
    /\ ws.emits = <<TranscriptionUpdate(ws.data)>>
    /\ StatusOf(connected_rooms, ws.data.room) = "connected"

\* C7: no thread that holds _lock is in an emit: neither the websocket thread
\* in process_room_message nor a viewer's thread answering get_room_status.
C7_NoEmitUnderLock ==
    /\ lock = "ws" => ws.pc # "emit"
    /\ \A v \in Viewers : lock = v => viewer[v].pc # "sr_emit"

\* C8: with a viewer stalled, every payload a connection has delivered is
\* still read, every event waiting for _lock is still applied, and every
\* other viewer a broadcast has yet to reach is still written to.
C8_StalledViewerBlocksNothing ==
    /\ \A c \in Conns :
          (conn[c] \in {"open", "closed"} /\ wire[c] # <<>>) ~> (wire[c] = <<>>)
    /\ (ws.pc = "prm_lock") ~> (ws.pc = "prm_locked")
    /\ \A v \in Viewers :
          (ws.pc = "emit" /\ v \in Range(ws.todo) /\ stalled # {} /\ v \notin stalled)
          ~> ~(ws.pc = "emit" /\ v \in Range(ws.todo))

\* C9: a send_to_hub called by the main loop while the agent is not connected
\* appends the event to the local buffer and returns at once: nothing is
\* written, no connection is opened or attempted, and is_connected and
\* websocket stay as they were.
C9_SendWhileDisconnectedBuffers ==
    [][(/\ At("main", "loop_get")
        /\ transcription_queue # <<>>
        /\ ~is_connected
        /\ stack' # stack)
       => (/\ local_backup' = Append(local_backup, Head(transcription_queue))
           /\ sent' = sent
           /\ wire' = wire
           /\ conn' = conn
           /\ is_connected' = is_connected
           /\ websocket' = websocket
           /\ Len(stack') = Len(stack)
           /\ stack'[Len(stack')].pc = "health_check")]_vars

\* The main loop is back from sending a final while not connected, and the
\* final is the last line of the local buffer.
C9_Witness ==
    /\ At("main", "health_check")
    /\ ~is_connected
    /\ Top.data.type = "final"
    /\ local_backup # <<>>
    /\ local_backup[Len(local_backup)] = Top.data

\* C10: no event of the local buffer was written to the hub, and none is among
\* the payloads a connection carries.
C10_BufferedNeverSent ==
    /\ sent \cap Range(local_backup) = {}
    /\ \A c \in Conns : \A i \in 1..Len(wire[c]) :
          Loads(wire[c][i]) \notin Range(local_backup)

\* An event was buffered, and a later event was written to the hub.
C10_Witness ==
    \E b \in Range(local_backup), e \in sent :
        /\ b.timestamp < e.timestamp
        /\ is_connected

\* The second shutdown() runs: it was called after the first returned, and has
\* not returned yet.
SecondShutdownRuns ==
    /\ shutdowns = 2
    /\ stack # <<>>
    /\ stack[1].fn = "main"
    /\ stack[1].pc = "in_shutdown"

\* C11: no step of a second shutdown(), called after a completed shutdown(),
\* writes a message to the hub, opens a connection, appends to the local
\* buffer or changes is_connected or websocket: the agent stays as the first
\* call left it.
C11_SecondShutdownNoEffect ==
    [][(SecondShutdownRuns /\ stack' # stack)
       => (/\ sent' = sent
           /\ wire' = wire
           /\ local_backup' = local_backup
           /\ is_connected' = is_connected
           /\ websocket' = websocket
           /\ \A c \in Conns : conn[c] = "unused" => conn'[c] = "unused")]_vars

\* C12: shutdown() stops the recorder, then passes the Disconnection notice to
\* send_to_hub, then closes the transport: the agent closes a transport only
\* in a shutdown() whose notice send_to_hub has already handled, with the
\* recorder stopped; a Disconnection is written to the hub only while
\* is_connected holds, and is written or buffered only with the recorder
\* stopped.
C12_ShutdownOrder ==
    [][/\ (stack' # stack /\ \E c \in Conns : conn[c] = "open" /\ conn'[c] = "closed")
          => (/\ Top.fn = "shutdown"
              /\ recorder_stopped
              /\ Top.data.type = "disconnection"
              /\ Top.data.room = AgentRoom)
       /\ \A e \in sent' \ sent :
             e.type = "disconnection"
                => (is_connected /\ websocket # None /\ recorder_stopped)
       /\ \A e \in Range(local_backup') \ Range(local_backup) :
             e.type = "disconnection" => recorder_stopped']_vars

\* shutdown() has closed the transport on which its Disconnection was written.
C12_Witness ==
    /\ At("shutdown", "closing")
    /\ recorder_stopped
    /\ Top.data \in sent
    /\ conn[websocket] = "closed"
    /\ Loads(wire[websocket][Len(wire[websocket])]) = Top.data

\* A message lacks a field the wire format requires: the room, one of the
\* four types, or the text or id of a final.
MalformedEvent(data) ==
    \/ data.room = NoRoom
    \/ data.type \notin EventTypes
    \/ data.type = "final" /\ (data.text = NoText \/ data.id = NoId)

\* C13: a malformed message read from a connection (no JSON, or lacking a
\* required field) is discarded: if it reaches process_room_message it
\* changes nothing in the Registry and nothing is broadcast for it, and
\* reading it leaves the connection as it was.
C13_MalformedDiscarded ==
    /\ []((ws.pc = "prm_ret" /\ ~ws.fin /\ MalformedEvent(ws.data)) => ws.emits = <<>>)
    /\ [][/\ (ws.pc = "prm_lock" /\ ws'.pc = "prm_locked" /\ ~ws.fin
              /\ MalformedEvent(ws.data))
             => (/\ connected_rooms' = connected_rooms
                 /\ transcription_history' = transcription_history
                 /\ room_stats' = room_stats)
          /\ \A c \in Conns :
                (/\ wire[c] # <<>>
                 /\ wire'[c] = Tail(wire[c])
                 /\ (~IsJson(Head(wire[c])) \/ MalformedEvent(Loads(Head(wire[c])))))
                => conn'[c] = conn[c]]_vars

\* The sessions the Registry holds for a room.
SessionsOf(cr, room) == {i \in 1..Len(cr) : cr[i].room = room}

\* C14: the Registry never holds two sessions for a room, and applying a
\* Connection leaves the room with one Connected session and the history and
\* counters untouched; applying the same Connection once more would change
\* nothing, and applied to a room that is already Connected it changes nothing.
C14_ConnectionIdempotent ==
    /\ [](\A r \in Rooms : Cardinality(SessionsOf(connected_rooms, r)) <= 1)
    /\ [][(ws.pc = "prm_lock" /\ ws'.pc = "prm_locked" /\ ws.data.type = "connection")
          => (/\ Cardinality(SessionsOf(connected_rooms', ws.data.room)) = 1
              /\ StatusOf(connected_rooms', ws.data.room) = "connected"
              /\ transcription_history' = transcription_history
              /\ room_stats' = room_stats
              /\ RoomsAfter(connected_rooms', ws.data) = connected_rooms'
              /\ HistoryAfter(transcription_history', ws.data) = transcription_history'
              /\ StatsAfter(room_stats', ws.data) = room_stats'
              /\ StatusOf(connected_rooms, ws.data.room) = "connected"
                    => connected_rooms' = connected_rooms)]_vars

\* A second message has been applied, a Connection, to a Registry whose only
\* session is the room's, Connected before and after, with no history.
C14_Witness ==
    /\ ws.pc = "prm_locked"
    /\ ws.data.type = "connection"
    /\ msgs = 2
    /\ \A c \in Conns : wire[c] = <<>> /\ conn[c] \in {"open", "unused"}
    /\ connected_rooms = <<[room |-> ws.data.room, status |-> "connected"]>>
    /\ \A r \in Rooms : transcription_history[r] = <<>>

\* The connection attempts begun by the connect_to_hub calls on a stack: the
\* outermost call's and those of the calls nested in it that have not returned.
RECURSIVE AttemptsIn(_)
AttemptsIn(s) ==
    IF s = <<>> THEN 0
    ELSE (IF Head(s).fn = "connect" THEN Head(s).attempt + 1 ELSE 0) + AttemptsIn(Tail(s))

\* C15: one call of connect_to_hub makes at most max_retries connection
\* attempts in total, those made while it sends the Connection event
\* included.
C15_ConnectAttemptsBounded == AttemptsIn(stack) <= max_retries

\* The partial tasks created by a step: those of suspended' beyond suspended.
NewTasks ==
    {suspended'[i] : i \in (Len(suspended) + 1)..Len(suspended')}

\* C16: every Partial handed to a send task carries the id of the next Final,
\* the final counter at that moment plus one (1 before the first Final).
C16_PartialCarriesNextFinalId ==
    [][\A t \in NewTasks :
          (t[1].fn = "task" /\ t[1].pc = "task_start")
             => (/\ t[1].data.type = "partial"
                 /\ t[1].data.id = transcription_counter + 1)]_vars

\* A send_to_hub whose write did not happen returns to its caller: it was
\* called while connected (it got as far as websocket.send), nothing was
\* written, and its frame is gone.
FailedSendReturns ==
    /\ stack # <<>>
    /\ Top.fn = "send"
    /\ Len(stack') = Len(stack) - 1
    /\ wire' = wire
    /\ shutdowns' = shutdowns

\* C17: when a send_to_hub called while connected returns after a failed
\* write, the event is in the local buffer, a reconnect was made, and the
\* agent is disconnected unless that reconnect has connected it again.
C17_FailedWriteBuffersAndReconnects ==
    [][FailedSendReturns
       => (/\ Top.data \in Range(local_backup')
           /\ Top.pc = "reconnect_ret"
           /\ is_connected' => websocket' # Top.ws)]_vars

\* The longest wait of a connect_to_hub: the one before its last attempt.
LongestWait == retry_delay * 2 ^ (max_retries - 2)

\* C18: in every connect_to_hub call, the wait before the retry that follows
\* failed attempt number k+1 is retry_delay * 2^k (2 s after the first, doubled
\* after each), never more than the longest wait, and there is no wait after
\* the last attempt.
C18_BackoffDoubles ==
    \A i \in 1..Len(stack) :
        stack[i].fn = "connect"
        => /\ stack[i].retry_delay = retry_delay * 2 ^ stack[i].attempt
           /\ stack[i].attempt <= max_retries - 1
           /\ stack[i].pc = "backoff"
                 => /\ stack[i].attempt < max_retries - 1
                    /\ stack[i].retry_delay <= LongestWait

\* A connect_to_hub waits 16 s before its last attempt, in a call nested in
\* the send of another call's Connection event.
C18_Witness ==
    /\ At("connect", "backoff")
    /\ Top.attempt = max_retries - 2
    /\ Top.retry_delay = LongestWait
    /\ \E i \in 1..Len(stack) - 1 : stack[i].fn = "connect"

\* C19: a successful connection attempt makes the agent connected, and on
\* every transport the first payload written is the Connection event of the
\* agent's room (no hub reads here: wire holds all that was written).
C19_ConnectionEventFirst ==
    /\ [](\A c \in Conns :
             wire[c] # <<>>
                => /\ Loads(wire[c][1]).type = "connection"
                   /\ Loads(wire[c][1]).room = AgentRoom)
    /\ [][websocket' # websocket => is_connected']_vars

\* A step of the main loop's health check, from the test or from the wait
\* for the pong.
HealthStep(pc) == At("main", pc) /\ stack' # stack

\* The probe was answered: the loop goes on to its sleep.
ProbeAnswered ==
    /\ conn[Top.ws] = "open"
    /\ stack' = SetTop(stack, [Top EXCEPT !.pc = "loop_sleep"])
    /\ is_connected' = is_connected

\* C20: the main loop sends a probe only while is_connected holds and a
\* transport is set; a probe that is not answered sets is_connected False and
\* calls connect_to_hub from its first attempt, as send_to_hub does when a
\* write finds the transport closed; a probe on a closed transport is never
\* answered.
C20_FailedProbeReconnects ==
    [][/\ HealthStep("health_check")
          => IF is_connected /\ websocket # None
             THEN stack' = SetTop(stack, [Top EXCEPT !.pc = "pinging", !.ws = websocket])
             ELSE stack' = SetTop(stack, [Top EXCEPT !.pc = "loop_sleep"])
       /\ HealthStep("pinging")
          => \/ ProbeAnswered
             \/ /\ is_connected' = FALSE
                /\ Len(stack') = Len(stack) + 1
                /\ stack'[Len(stack')] = ConnectFrame
                /\ stack'[Len(stack)].pc = "health_reconnect"
       /\ (At("send", "sending") /\ Len(stack') = Len(stack) + 1)
          => /\ is_connected' = FALSE
             /\ stack'[Len(stack')] = ConnectFrame]_vars

\* A probe on a closed transport has failed: the agent is disconnected and in
\* the first attempt of the connect_to_hub the health check called.
C20_Witness ==
    /\ Len(stack) = 2
    /\ stack[1].fn = "main" /\ stack[1].pc = "health_reconnect"
    /\ stack[2] = ConnectFrame
    /\ ~is_connected
    /\ conn[stack[1].ws] = "closed"

\* process_room_message takes the lock and updates the Registry for ws.data.
Applying == ws.pc = "prm_lock" /\ ws'.pc = "prm_locked"

\* C21: applying a Partial or a Final leaves the room with one session, and
\* it is Connected, whatever the room had before (nothing, or a Disconnected
\* session); applying a Disconnection for a room without a session creates
\* none and leaves the whole Registry as it was.
C21_DataEventConnectsRoom ==
    [][/\ (Applying /\ ws.data.type \in {"partial", "final"})
          => /\ StatusOf(connected_rooms', ws.data.room) = "connected"
             /\ Cardinality({i \in 1..Len(connected_rooms') :
                                connected_rooms'[i].room = ws.data.room}) = 1
             /\ \A r \in Rooms \ {ws.data.room} :
                   StatusOf(connected_rooms', r) = StatusOf(connected_rooms, r)
       /\ (Applying /\ ws.data.type = "disconnection"
             /\ ~HasRoom(connected_rooms, ws.data.room))
          => /\ ~HasRoom(connected_rooms', ws.data.room)
             /\ connected_rooms' = connected_rooms
             /\ transcription_history' = transcription_history
             /\ room_stats' = room_stats]_vars

\* A Partial has been applied for a room whose session was Disconnected: the
\* room has a Final in its history, the connection that sent it is closed
\* and its synthesized Disconnection was applied.
C21_Witness ==
    /\ ws.pc = "prm_locked"
    /\ ws.data.type = "partial"
    /\ transcription_history[ws.data.room] # <<>>
    /\ \E c \in Conns : conn[c] = "done" /\ room_name[c] = ws.data.room
    /\ StatusOf(connected_rooms, ws.data.room) = "connected"

\* C22: a room's history holds only Finals of that room; applying a Final
\* appends it at the end of its room's history and leaves the other rooms'
\* alone; no other step (another event applied, a broadcast, a status
\* request, a closure) changes any history.
C22_HistoryIsAppliedFinals ==
    /\ [](\A r \in Rooms : \A i \in 1..Len(transcription_history[r]) :
             /\ transcription_history[r][i].type = "final"
             /\ transcription_history[r][i].room = r)
    /\ [][IF Applying /\ ws.data.type = "final"
          THEN /\ transcription_history'[ws.data.room]
                     = Append(transcription_history[ws.data.room], ws.data)
               /\ \A r \in Rooms \ {ws.data.room} :
                     transcription_history'[r] = transcription_history[r]
          ELSE transcription_history' = transcription_history]_vars

\* A room's history holds two Finals in the order they were applied, which is
\* not the order of their ids.
C22_Witness ==
    \E r \in Rooms :
        /\ Len(transcription_history[r]) = 2
        /\ transcription_history[r][1].id = 2
        /\ transcription_history[r][2].id = 1

\* The loop that owns the connection is inside a network send, a keepalive
\* wait, a connection attempt or a backoff sleep.
LoopOnNetwork ==
    stack # <<>> /\ Top.pc \in {"sending", "pinging", "connecting", "backoff"}

\* C23: while the loop is in a network send, a keepalive wait, a connection
\* attempt or a backoff sleep, a running producer with a final to hand over
\* can always complete the hand-off (counter increment plus enqueue); the
\* queue holds the finals in the order they were produced, and the only step
\* that removes one is the loop taking the head and passing it to send_to_hub,
\* so finals leave the queue in production order.
C23_HandOffNeverBlocked ==
    /\ []((LoopOnNetwork /\ worker_started /\ ~recorder_stopped
              /\ transcription_counter < MaxFinals)
            => ENABLED ProcessFinalText)
    /\ [](\A i \in 1..Len(transcription_queue) :
             transcription_queue[i].id
                = transcription_counter - Len(transcription_queue) + i)
    /\ [][\/ transcription_queue' = transcription_queue
          \/ /\ transcription_counter' = transcription_counter + 1
             /\ Len(transcription_queue') = Len(transcription_queue) + 1
             /\ SubSeq(transcription_queue', 1, Len(transcription_queue))
                   = transcription_queue
             /\ transcription_queue'[Len(transcription_queue')].id
                   = transcription_counter'
          \/ /\ transcription_queue # <<>>
             /\ transcription_queue' = Tail(transcription_queue)
             /\ stack'[Len(stack)].fn = "main"
             /\ stack'[Len(stack)].data = Head(transcription_queue)]_vars

\* The loop is in a backoff sleep and the producer has handed over two finals
\* that wait in production order.
C23_Witness ==
    /\ At("connect", "backoff")
    /\ worker_started
    /\ Len(transcription_queue) = 2
    /\ transcription_queue[1].id = 1
    /\ transcription_queue[2].id = 2

\* C24: in every reachable state, for every room, total_transcriptions equals
\* the number of entries in the room's history.
C24_StatsCountHistory ==
    \A r \in Rooms : room_stats[r] = Len(transcription_history[r])

\* A Partial has just been applied to a room that already has one stored
\* Final: the count stays at one.
C24_Witness ==
    /\ ws.pc = "prm_locked"
    /\ ws.data.type = "partial"
    /\ room_stats[ws.data.room] = 1
    /\ Len(transcription_history[ws.data.room]) = 1

\* The agent holds an open connection on which the hub has read the agent's
\* Connection event, nothing sent on it is still unread, and the hub's
\* websocket thread is between two messages.
AnnouncedAndOpen ==
    /\ is_connected
    /\ websocket # None
    /\ conn[websocket] = "open"
    /\ room_name[websocket] = AgentRoom
    /\ wire[websocket] = <<>>
    /\ ws.pc = "idle"

\* C25: a room whose agent has an open connection that has delivered its
\* Connection event is Connected in the Registry, also when the agent's
\* previous connection is closed only after the new one was announced.
C25_AnnouncedRoomConnected ==
    AnnouncedAndOpen => StatusOf(connected_rooms, AgentRoom) = "connected"

\* Nothing is in progress in the hub: every payload written has been read,
\* every closure has been handled, and no thread is inside a handler.
Quiescent ==
    /\ ws.pc = "idle"
    /\ lock = "free"
    /\ \A c \in Conns : wire[c] = <<>> /\ conn[c] # "closed"
    /\ \A v \in Viewers : viewer[v].pc = "idle"

\* C26: at quiescence, no viewer's last status message for a room is
\* room_disconnected while the Registry holds the room as Connected.
C26_StatusChangesAnnounced ==
    Quiescent =>
        \A v \in Viewers : \A r \in Rooms :
            last_status[v][r] = "room_disconnected"
                => StatusOf(connected_rooms, r) # "connected"

\* C27: an agent that is not Connected, with the hub able to accept another
\* connection, eventually becomes Connected again (or the hub stops being
\* able to accept one).
C27_EventuallyConnectedAgain ==
    (~is_connected /\ FreeConns # {}) ~> (is_connected \/ FreeConns = {})

\* C28: broadcasts leave the hub in the order their events were applied.  The
\* Registry changes only in the step that applies an event, and no write of an
\* earlier event's broadcast is outstanding then; once an event is applied,
\* the handler takes no other event until the message for that event has been
\* written to every viewer, in the viewers' order; each write is the message
\* of the event applied last.
C28_BroadcastInApplyOrder ==
    [][/\ (registryVars' # registryVars) => Applying
       /\ Applying => (ws.emits = <<>> /\ ws.todo = <<>>)
       /\ (ws.pc # "idle" /\ ws'.pc # "idle") => (ws'.data = ws.data /\ ws'.c = ws.c)
       /\ (ws.pc = "prm_locked" /\ ws'.pc # "prm_locked")
             => /\ ws.data.type = "connection"
                   => ws'.emits = <<RoomConnected(ws.data.room)>>
                /\ ws.data.type = "disconnection"
                   => ws'.emits = <<RoomDisconnected(ws.data.room)>>
                /\ ws.data.type \in {"partial", "final"}
                   => ws'.emits = <<TranscriptionUpdate(ws.data)>>
                /\ ws'.emits # <<>> => (ws'.pc = "emit" /\ ws'.todo = ViewerSeq)
       /\ (ws.pc = "emit" /\ ws' # ws)
             => /\ ws'.todo = Tail(ws.todo)
                /\ ws'.emits = ws.emits
                /\ ws'.pc = IF ws'.todo = <<>> THEN "prm_ret" ELSE "emit"
                /\ last_status' = UpdateRoomStatus(last_status, Head(ws.todo), ws.emits[1])]_vars

\* The room_disconnected of a Disconnection that came on one connection is
\* being broadcast after the room_connected of a Connection that came on
\* another: the first viewer has it, the second still has the earlier message.
C28_Witness ==
    /\ ws.pc = "emit"
    /\ ws.emits = <<RoomDisconnected(ws.data.room)>>
    /\ Len(ws.todo) = 1
    /\ last_status[ViewerSeq[1]][ws.data.room] = "room_disconnected"
    /\ last_status[ViewerSeq[2]][ws.data.room] = "room_connected"
    /\ msgs = MaxMsgs
    /\ \E c \in Conns \ {ws.c} : room_name[c] = ws.data.room

=============================================================================
